---------------------------- MODULE Spec2Model ----------------------------
(***************************************************************************)
(* The Job engine of ffuf-mini (package ffuf, job.go): Start drains a      *)
(* queue of recursion targets; for each target startExecution dispatches   *)
(* the wordlist through a limiter of Config.Threads permits, each input    *)
(* being handled by a runTask goroutine; CheckStop, the interrupt monitor  *)
(* and Pause/Resume steer the run.                                         *)
(*                                                                         *)
(* One dispatcher process (Start / startExecution), a dynamic set of       *)
(* worker goroutines, the progress goroutine of the current execution, the *)
(* signal-handler goroutine and the user of the exported methods.          *)
(***************************************************************************)
EXTENDS Integers, Sequences, FiniteSets, TLC

(***************************************************************************)
(* Bounds of the model.                                                    *)
(***************************************************************************)
\* largest number of values the InputProvider yields per pass (Input.Total())
MaxWords == 3
\* largest Config.Threads a run is started with
MaxThreads == 2
\* responses of the server that make a recursion handler consider an append
MaxDirs == 3
\* signals the operating system delivers during one run
MaxSignals == 2
\* errors the runners return during one run
MaxFaults == 2
\* matchers, and filters, a run is configured with at most
MaxRules == 2

(***************************************************************************)
(* Program constants.                                                      *)
(***************************************************************************)
\* CheckStop: "if j.Counter > 50"
MinSamples == 50
\* make(chan os.Signal, 2)
SigChanCap == 2

ErrNone == ""
ErrInterrupt == "Caught keyboard interrupt (Ctrl-C)\n"
Err403 == "Getting an unusual amount of 403 responses, exiting."
ErrSpurious == "Receiving spurious errors, exiting."
Err429 == "Getting an unusual amount of 429 responses, exiting."
ErrMaxTime == "Maximum running time for entire process reached, exiting."
ErrMaxTimeJob == "Maximum running time for this job reached, continuing with next job if one exists."

\* run-time panics of the Go runtime and of sync.WaitGroup
NoPanic == "none"
PanicIndex == "index out of range"
PanicWaitGroup == "sync: negative WaitGroup counter"

VARIABLES
    Config,               \* *Config: the fields the engine reads (Url apart)
    ConfigUrl,            \* Config.Url, rewritten per queued target
    queuejobs,            \* []QueueJob: the entries below its length
    stale,                \* what its array holds behind its length
    queuepos,             \* int
    currentDepth,         \* int
    Counter, ErrorCounter, SpuriousErrorCounter, Count403, Count429,
    Running, RunningJob, Paused, skipQueue,
    pauseWg,              \* counter of the sync.WaitGroup pauseWg
    Error,                \* string
    inputPos,             \* cursor of the InputProvider
    pc,                   \* where Start / startExecution stands
    workers,              \* the runTask goroutines spawned and not yet returned
    limiter,              \* length of the limiter channel of the current execution
    bg,                   \* runBackgroundTasks of the current execution
    sigChan,              \* signals buffered in sigChan
    sigSent,              \* signals delivered so far
    handler,              \* the goroutine of interruptMonitor
    cancelled,            \* Config.Cancel() has been called
    panicked,             \* the panic that ended the process, or NoPanic
    finalizeCalls,        \* calls of Output.Finalize: [loop |-> n, end |-> n]
    selected,             \* history: targets prepareQueueJob selected, in order
    appended,             \* history: targets appended, in order of their append
    faults,               \* errors the runners may still return
    Total,                \* Input.Total(): the values one pass of the input yields
    interruptedPaused,    \* history: the signal handler has found Paused true
    stopped403,           \* history: CheckStop has stopped the job for its 403 ratio
    dirs,                 \* responses served that called for a recursion handler
    deleteCalls,          \* history: the arguments of the DeleteQueueItem calls
    server,               \* the verdicts of matchers and filters the responses get
    seen                  \* the counters the CheckStop call in progress has read

vars == << Config, ConfigUrl, queuejobs, queuepos, currentDepth, Counter,
          ErrorCounter, SpuriousErrorCounter, Count403, Count429,
          Running, RunningJob, Paused, skipQueue, pauseWg, Error,
          inputPos, pc, workers, limiter, bg, sigChan, sigSent, handler,
          cancelled, panicked, finalizeCalls, selected, appended,
          faults, Total, interruptedPaused, stopped403, dirs, stale,
          deleteCalls, server, seen >>


(***************************************************************************)
(* Configurations a run is started with.  A zero RecursionDepth is         *)
(* "unbounded"; MaxTime and MaxTimeJob are seconds, zero being "none".     *)
(***************************************************************************)
CoreConfig ==
    [Threads |-> 1, Recursion |-> FALSE, RecursionStrategy |-> "default",
     RecursionDepth |-> 0, StopOn403 |-> FALSE, StopOnErrors |-> FALSE,
     StopOnAll |-> FALSE, MaxTime |-> 0, MaxTimeJob |-> 0, Replay |-> FALSE]

\* greedy recursion one level deep, a per-target time limit
GreedyConfig ==
    [CoreConfig EXCEPT !.Threads = MaxThreads, !.Recursion = TRUE,
                       !.RecursionStrategy = "greedy", !.RecursionDepth = 1,
                       !.MaxTimeJob = 1]

\* default recursion without a depth limit, a replay runner, a total time limit
DefaultConfig ==
    [CoreConfig EXCEPT !.Recursion = TRUE, !.StopOn403 = TRUE,
                       !.StopOnErrors = TRUE, !.MaxTime = 1, !.Replay = TRUE]

\* no recursion, every adaptive stop
StopAllConfig ==
    [CoreConfig EXCEPT !.Threads = MaxThreads, !.StopOnAll = TRUE]

\* the per-target time limit with one thread
TimedConfig == [GreedyConfig EXCEPT !.Threads = 1]

\* A run: its configuration, the length of its wordlist and the errors its
\* runners will return at most.
Scenarios ==
    { [Config |-> [GreedyConfig EXCEPT !.MaxTimeJob = 0],
       words |-> MaxWords - 1, faults |-> 1],
      [Config |-> TimedConfig,   words |-> MaxWords - 1, faults |-> 0],
      [Config |-> DefaultConfig, words |-> MaxWords - 1, faults |-> 1],
      [Config |-> StopAllConfig, words |-> MaxWords,     faults |-> MaxFaults] }

\* URLs are paths below the base URL: the sequence of the words substituted
\* for FUZZ so far.  BaseUrl stands for the Config.Url the run is started with
\* and Append(u, w) for u with FUZZ replaced by the word w, then "/FUZZ".
BaseUrl == << >>

QueueJob(url, depth) == [Url |-> url, depth |-> depth]

(***************************************************************************)
(* Responses of the RunnerProvider.  m and f are what the configured       *)
(* matchers and filters return on the response, in order: "true", "false"  *)
(* or "error".  redirect is "none" (GetRedirectLocation(false) is empty),  *)
(* "dir" (the absolute location is Request.Url + "/") or "other".          *)
(***************************************************************************)
NoResp == [StatusCode |-> 0, m |-> << >>, f |-> << >>, redirect |-> "none"]

Classes ==
    { [m |-> <<"false", "error">>, f |-> <<"false">>],
      [m |-> <<"false", "true">>,  f |-> <<"error", "true">>],
      [m |-> <<"true", "false">>,  f |-> <<"error", "false">>] }

\* the verdicts of up to MaxRules matchers or filters
Verdicts ==
    UNION { [1..n -> {"true", "false", "error"}] : n \in 0..MaxRules }

\* every response the matchers and filters can tell apart
AllClasses == { [m |-> vm, f |-> vf] : vm \in Verdicts, vf \in Verdicts }

\* The server answers with one response of each kind isMatch tells apart,
\* or with every response.
ServerClasses == IF server = "any" THEN AllClasses ELSE Classes

\* Attributes the engine does not read under configuration c are fixed.
StatusCodes(c) ==
    {200} \cup (IF c.StopOn403 \/ c.StopOnAll THEN {403} ELSE {})
          \cup (IF c.StopOnAll THEN {429} ELSE {})

Redirects(c) ==
    {"none"} \cup (IF c.Recursion /\ c.RecursionStrategy = "default"
                   THEN {"dir", "other"} ELSE {})

Responses(c) ==
    { [StatusCode |-> s, m |-> k.m, f |-> k.f, redirect |-> r] :
        s \in StatusCodes(c), k \in ServerClasses, r \in Redirects(c) }

(***************************************************************************)
(* isMatch: the classification, and the number of MakeFreeMemory calls it  *)
(* makes on the response.                                                  *)
(***************************************************************************)
\* verdicts among which an error counts as true
AnyTrueOrError(outcomes) ==
    \E i \in 1..Len(outcomes) : outcomes[i] \in {"true", "error"}

AnyTrue(outcomes) == \E i \in 1..Len(outcomes) : outcomes[i] = "true"

isMatch(resp) ==
    IF ~AnyTrue(resp.m) THEN FALSE
    ELSE IF AnyTrue(resp.f) THEN FALSE
    ELSE TRUE

isMatchFrees(resp) ==
    IF ~AnyTrue(resp.m) THEN 1
    ELSE IF AnyTrue(resp.f) THEN 1
    ELSE 1

\* "j.Config.RecursionDepth == 0 || j.currentDepth < j.Config.RecursionDepth"
DepthAllows(depth) ==
    Config.RecursionDepth = 0 \/ depth < Config.RecursionDepth


(***************************************************************************)
(* NewJob, and the state Start finds.                                      *)
(***************************************************************************)
\* CheckStop has read none of the counters the workers write
NoneSeen == [c403 |-> -1, spurious |-> -1, c429 |-> -1]

NewJob ==
    /\ seen = NoneSeen
    /\ ConfigUrl = BaseUrl
    /\ queuejobs = << >>
    /\ stale = << >>
    /\ queuepos = 0
    /\ currentDepth = 0
    /\ Counter = 0
    /\ ErrorCounter = 0
    /\ SpuriousErrorCounter = 0
    /\ Count403 = 0
    /\ Count429 = 0
    /\ Running = FALSE
    /\ RunningJob = FALSE
    /\ Paused = FALSE
    /\ skipQueue = FALSE
    /\ pauseWg = 0
    /\ Error = ErrNone
    /\ inputPos = 0
    /\ pc = "start"
    /\ workers = {}
    /\ limiter = 0
    /\ bg = "done"
    /\ sigChan = 0
    /\ sigSent = 0
    /\ handler = "off"
    /\ cancelled = FALSE
    /\ panicked = NoPanic
    /\ finalizeCalls = [loop |-> 0, end |-> 0]
    /\ selected = << >>
    /\ appended = << >>
    /\ interruptedPaused = FALSE
    /\ stopped403 = FALSE
    /\ dirs = 0
    /\ deleteCalls = << >>

Alive == panicked = NoPanic

\* sync.WaitGroup panics when its counter becomes negative
WaitGroupPanic(counter) == IF counter < 0 THEN PanicWaitGroup ELSE panicked

Init ==
    /\ \E s \in Scenarios :
         Config = s.Config /\ Total = s.words /\ faults = s.faults
    /\ server = "sample"
    /\ NewJob

(***************************************************************************)
(* Start, up to the queue loop: seeds the queue, sets the run flags and    *)
(* installs the interrupt monitor.                                         *)
(***************************************************************************)
StartBegin ==
    /\ pc = "start" /\ Alive
    /\ queuejobs' = Append(queuejobs, QueueJob(ConfigUrl, 0))
    /\ appended' = Append(appended, QueueJob(ConfigUrl, 0))
    /\ Running' = TRUE
    /\ RunningJob' = TRUE
    /\ handler' = "idle"
    /\ pc' = "queue"
    /\ UNCHANGED << Config, ConfigUrl, queuepos, currentDepth, Counter,
                    ErrorCounter, SpuriousErrorCounter, Count403, Count429,
                    Paused, skipQueue, pauseWg, Error, inputPos, workers,
                    limiter, bg, sigChan, sigSent, cancelled, panicked,
                    finalizeCalls, selected, faults, Total, interruptedPaused,
                    stopped403, dirs, stale, deleteCalls, server, seen >>

\* "for j.jobsInQueue()"
jobsInQueue == queuepos < Len(queuejobs)

QueueLoop ==
    /\ pc = "queue" /\ Alive
    /\ pc' = IF jobsInQueue THEN "prepare" ELSE "finalize"
    /\ UNCHANGED << Config, ConfigUrl, queuejobs, queuepos, currentDepth,
                    Counter, ErrorCounter, SpuriousErrorCounter, Count403,
                    Count429, Running, RunningJob, Paused, skipQueue, pauseWg,
                    Error, inputPos, workers, limiter, bg, sigChan, sigSent,
                    handler, cancelled, panicked, finalizeCalls, selected,
                    appended, faults, Total, interruptedPaused, stopped403,
                    dirs, stale, deleteCalls, server, seen >>

\* prepareQueueJob: the queue entry read and the cursor after it
prepareQueueJob == [job |-> queuejobs[queuepos + 1], queuepos |-> queuepos + 1]

(***************************************************************************)
(* prepareQueueJob; Reset(true); RunningJob = true; and startExecution up  *)
(* to its loop (the progress goroutine is started, the limiter is made).   *)
(* Reading queuejobs[queuepos] past the end panics.                        *)
(***************************************************************************)
PrepareAndReset ==
    /\ pc = "prepare" /\ Alive
    /\ IF queuepos >= Len(queuejobs)
       THEN /\ panicked' = PanicIndex
            /\ UNCHANGED << ConfigUrl, queuepos, currentDepth, Counter,
                            skipQueue, RunningJob, inputPos, limiter, bg, pc,
                            selected >>
       ELSE /\ ConfigUrl' = prepareQueueJob.job.Url
            /\ currentDepth' = prepareQueueJob.job.depth
            /\ queuepos' = prepareQueueJob.queuepos
            /\ selected' = Append(selected, prepareQueueJob.job)
            /\ inputPos' = 0
            /\ Counter' = 0
            /\ skipQueue' = FALSE
            /\ RunningJob' = TRUE
            /\ bg' = "top"
            /\ limiter' = 0
            /\ pc' = "loop"
            /\ UNCHANGED panicked
    /\ UNCHANGED << Config, queuejobs, ErrorCounter, SpuriousErrorCounter,
                    Count403, Count429, Running, Paused, pauseWg, Error,
                    workers, sigChan, sigSent, handler, cancelled,
                    finalizeCalls, appended, faults, Total, interruptedPaused,
                    stopped403, dirs, stale, deleteCalls, server, seen >>

(***************************************************************************)
(* CheckStop.  The ratios compare float64 quotients with 0.95 and 0.2; for *)
(* counters of this size that is the comparison of the cross products.     *)
(* totalUp and jobUp say whether the whole seconds since startTime and     *)
(* since startTimeJob have reached MaxTime and MaxTimeJob.                 *)
(***************************************************************************)
Stop403 ==
    /\ Counter > MinSamples
    /\ Config.StopOn403 \/ Config.StopOnAll
    /\ Count403 * 100 > 95 * Counter

StopSpurious ==
    /\ Counter > MinSamples
    /\ Config.StopOnErrors \/ Config.StopOnAll
    /\ SpuriousErrorCounter > Config.Threads * 2

Stop429 ==
    /\ Counter > MinSamples
    /\ Config.StopOnAll
    /\ Count429 * 10 > 2 * Counter

StopMaxTime(totalUp) == Config.MaxTime > 0 /\ totalUp

NextMaxTimeJob(jobUp) == Config.MaxTimeJob > 0 /\ jobUp

\* the assignments to j.Error, in the order CheckStop makes them
CheckStopError(totalUp, jobUp) ==
    IF NextMaxTimeJob(jobUp) THEN ErrMaxTimeJob
    ELSE IF StopMaxTime(totalUp) THEN ErrMaxTime
    ELSE IF Stop429 THEN Err429
    ELSE IF StopSpurious THEN ErrSpurious
    ELSE IF Stop403 THEN Err403
    ELSE Error

\* some branch of CheckStop calls Stop()
CheckStopStops(totalUp) ==
    Stop403 \/ StopSpurious \/ Stop429 \/ StopMaxTime(totalUp)

Clock(limit) == IF limit > 0 THEN BOOLEAN ELSE {FALSE}

\* a dispatch loop that does not look at Running after CheckStop
KeepsDispatching(running) == "pausewait"

\* "if !j.Running { defer j.Output.Warning(j.Error); break }"
AfterCheckStop(running) == IF running THEN "pausewait" ELSE "wait"

(***************************************************************************)
(* The head of one iteration of the dispatch loop:                         *)
(*   for j.Input.Next() && !j.skipQueue { j.CheckStop();                   *)
(*       if !j.Running { defer Warning; break } ...                        *)
(***************************************************************************)
LoopTop ==
    /\ pc = "loop" /\ Alive
    /\ IF inputPos >= Total
       THEN \* Input.Next() is false
            /\ pc' = "wait"
            /\ UNCHANGED << inputPos, Error, Running, RunningJob, cancelled,
                            stopped403 >>
       ELSE /\ inputPos' = inputPos + 1
            /\ IF skipQueue
               THEN /\ pc' = "wait"
                    /\ UNCHANGED << Error, Running, RunningJob, cancelled,
                                    stopped403 >>
               ELSE \E totalUp \in Clock(Config.MaxTime),
                       jobUp \in Clock(Config.MaxTimeJob) :
                      /\ Error' = CheckStopError(totalUp, jobUp)
                      /\ Running' = (Running /\ ~CheckStopStops(totalUp))
                      /\ cancelled' = (cancelled \/ CheckStopStops(totalUp))
                      /\ RunningJob' = (RunningJob /\ ~NextMaxTimeJob(jobUp))
                      /\ stopped403' = (stopped403 \/ Stop403)
                      /\ pc' = AfterCheckStop(Running')
    /\ UNCHANGED << Config, ConfigUrl, queuejobs, queuepos, currentDepth,
                    Counter, ErrorCounter, SpuriousErrorCounter, Count403,
                    Count429, Paused, skipQueue, pauseWg, workers, limiter, bg,
                    sigChan, sigSent, handler, panicked, finalizeCalls,
                    selected, appended, faults, Total, interruptedPaused, dirs,
                    stale, deleteCalls, server, seen >>

\* "j.pauseWg.Wait()" of the dispatcher
PauseWait ==
    /\ pc = "pausewait" /\ Alive
    /\ pauseWg = 0
    /\ pc' = "acquire"
    /\ UNCHANGED << Config, ConfigUrl, queuejobs, queuepos, currentDepth,
                    Counter, ErrorCounter, SpuriousErrorCounter, Count403,
                    Count429, Running, RunningJob, Paused, skipQueue, pauseWg,
                    Error, inputPos, workers, limiter, bg, sigChan, sigSent,
                    handler, cancelled, panicked, finalizeCalls, selected,
                    appended, faults, Total, interruptedPaused, stopped403,
                    dirs, stale, deleteCalls, server, seen >>

\* a runTask goroutine as "go func()" starts it
NewWorker(exec, position) ==
    [exec |-> exec, position |-> position, retried |-> FALSE, pc |-> "attempt",
     url |-> << >>, resp |-> NoResp, from |-> "none", d |-> 0, snap |-> << >>,
     nPrepare |-> 0, nExecute |-> 0, nIncError |-> 0, nResult |-> 0,
     replay |-> "none",
     nFree |-> 0, nAppend |-> 0]

\* a limiter channel with one slot more than Config.Threads
LimiterOneMore == limiter <= Config.Threads

\* "limiter <- true" can proceed
LimiterHasRoom == limiter < Config.Threads

\* calls of Output.Finalize one iteration of the dispatch loop makes
FinalizeInLoop == 1

\* a dispatch loop that does not look at RunningJob
GoesOnDispatching == "loop"

\* "if !j.RunningJob { defer j.Output.Warning(j.Error); return }"
AfterDispatch == IF ~RunningJob THEN "queue" ELSE "loop"

(***************************************************************************)
(* The rest of the iteration: the permit, the snapshot of the input, the   *)
(* Finalize call, Counter++, the worker, and the early return when         *)
(* RunningJob is false.  The progress goroutine the early return leaves    *)
(* behind writes none of the variables and is dropped.                     *)
(***************************************************************************)
Dispatch ==
    /\ pc = "acquire" /\ Alive
    /\ LimiterHasRoom
    /\ limiter' = limiter + 1
    /\ finalizeCalls' = [finalizeCalls EXCEPT !.loop = @ + FinalizeInLoop]
    /\ Counter' = Counter + 1
    /\ workers' = workers \cup {NewWorker(queuepos, inputPos)}
    /\ pc' = AfterDispatch
    /\ bg' = IF pc' = "queue" THEN "done" ELSE bg
    /\ UNCHANGED << Config, ConfigUrl, queuejobs, queuepos, currentDepth,
                    ErrorCounter, SpuriousErrorCounter, Count403, Count429,
                    Running, RunningJob, Paused, skipQueue, pauseWg, Error,
                    inputPos, sigChan, sigSent, handler, cancelled, panicked,
                    selected, appended, faults, Total, interruptedPaused,
                    stopped403, dirs, stale, deleteCalls, server, seen >>

\* the counter of startExecution's WaitGroup
wg == Cardinality({w \in workers : w.exec = queuepos})
        + (IF bg = "done" THEN 0 ELSE 1)

\* "wg.Wait(); j.updateProgress()" and the return to Start
WaitWorkers ==
    /\ pc = "wait" /\ Alive
    /\ wg = 0
    /\ pc' = "queue"
    /\ UNCHANGED << Config, ConfigUrl, queuejobs, queuepos, currentDepth,
                    Counter, ErrorCounter, SpuriousErrorCounter, Count403,
                    Count429, Running, RunningJob, Paused, skipQueue, pauseWg,
                    Error, inputPos, workers, limiter, bg, sigChan, sigSent,
                    handler, cancelled, panicked, finalizeCalls, selected,
                    appended, faults, Total, interruptedPaused, stopped403,
                    dirs, stale, deleteCalls, server, seen >>

\* "err := j.Output.Finalize()" and the deferred Stop() of Start
Finalize ==
    /\ pc = "finalize" /\ Alive
    /\ finalizeCalls' = [finalizeCalls EXCEPT !.end = @ + 1]
    /\ Running' = FALSE
    /\ cancelled' = TRUE
    /\ pc' = "done"
    /\ UNCHANGED << Config, ConfigUrl, queuejobs, queuepos, currentDepth,
                    Counter, ErrorCounter, SpuriousErrorCounter, Count403,
                    Count429, RunningJob, Paused, skipQueue, pauseWg, Error,
                    inputPos, workers, limiter, bg, sigChan, sigSent, handler,
                    panicked, selected, appended, faults, Total,
                    interruptedPaused, stopped403, dirs, stale, deleteCalls,
                    server, seen >>

(***************************************************************************)
(* runBackgroundTasks: the loop condition, then the body up to the sleep.  *)
(***************************************************************************)
BgTop ==
    /\ bg = "top" /\ Alive
    /\ bg' = IF Counter <= Total /\ ~skipQueue THEN "wait" ELSE "done"
    /\ UNCHANGED << Config, ConfigUrl, queuejobs, queuepos, currentDepth,
                    Counter, ErrorCounter, SpuriousErrorCounter, Count403,
                    Count429, Running, RunningJob, Paused, skipQueue, pauseWg,
                    Error, inputPos, pc, workers, limiter, sigChan, sigSent,
                    handler, cancelled, panicked, finalizeCalls, selected,
                    appended, faults, Total, interruptedPaused, stopped403,
                    dirs, stale, deleteCalls, server, seen >>

BgBody ==
    /\ bg = "wait" /\ Alive
    /\ pauseWg = 0
    /\ bg' = IF ~Running THEN "done"
             ELSE IF Counter = Total THEN "done"
             ELSE IF ~RunningJob THEN "done"
             ELSE "top"
    /\ UNCHANGED << Config, ConfigUrl, queuejobs, queuepos, currentDepth,
                    Counter, ErrorCounter, SpuriousErrorCounter, Count403,
                    Count429, Running, RunningJob, Paused, skipQueue, pauseWg,
                    Error, inputPos, pc, workers, limiter, sigChan, sigSent,
                    handler, cancelled, panicked, finalizeCalls, selected,
                    appended, faults, Total, interruptedPaused, stopped403,
                    dirs, stale, deleteCalls, server, seen >>


(***************************************************************************)
(* runTask.  Every worker w is a record of its goroutine's locals; the     *)
(* n... fields count what it has done for its input: calls of              *)
(* Runner.Prepare, Runner.Execute, incError, Output.Result,                *)
(* resp.MakeFreeMemory and appends to the queue; replay is how its replay  *)
(* request ended.  Steps that touch nothing shared are taken together with *)
(* the shared access before them.                                          *)
(***************************************************************************)
Become(w, w2) == workers' = (workers \ {w}) \cup {w2}

\* the response makes a recursion handler consider an append
TriggersRecursion(r) ==
    /\ Config.Recursion
    /\ \/ Config.RecursionStrategy = "greedy" /\ isMatch(r)
       \/ Config.RecursionStrategy = "default" /\ r.redirect = "dir"

\* The server has only finitely many directories.
ServerOffers(r) == ~TriggersRecursion(r) \/ dirs < MaxDirs

\* the response is counted by inc403 or inc429
Counts403(r) == (Config.StopOn403 \/ Config.StopOnAll) /\ r.StatusCode = 403
Counts429(r) == Config.StopOnAll /\ r.StatusCode = 429

AfterReset(r) == IF Counts403(r) \/ Counts429(r) THEN "count" ELSE "classify"

\* a runTask that goes on without looking at SpuriousErrorCounter
GoesOnWithoutReset(r) == AfterReset(r)

\* "if j.SpuriousErrorCounter > 0 { j.resetSpuriousErrors() }": the test
AfterExecute(r) == IF SpuriousErrorCounter > 0 THEN "reset" ELSE AfterReset(r)

\* runTask after an error of Runner.Prepare: Output.Error, incError, return
PrepareFailed(w) ==
    [w EXCEPT !.nPrepare = @ + 1, !.nIncError = @ + 1, !.pc = "exit"]

\* a runTask that calls incError for the first failure of Execute too
ExecuteFailedCounted(w) ==
    [w EXCEPT !.nPrepare = @ + 1, !.nExecute = @ + 1, !.nIncError = @ + 1,
              !.retried = TRUE, !.pc = IF w.retried THEN "exit" ELSE "attempt"]

\* runTask after an error of Runner.Execute: incError, or the one retry
ExecuteFailed(w) ==
    IF w.retried
    THEN [w EXCEPT !.nPrepare = @ + 1, !.nExecute = @ + 1,
                   !.nIncError = @ + 1, !.pc = "exit"]
    ELSE [w EXCEPT !.nPrepare = @ + 1, !.nExecute = @ + 1,
                   !.retried = TRUE, !.pc = "attempt"]

\* runTask with the response r, up to the test of SpuriousErrorCounter
Executed(w, r) ==
    [w EXCEPT !.nPrepare = @ + 1, !.nExecute = @ + 1,
              !.url = Append(ConfigUrl, w.position), !.resp = r,
              !.pc = AfterExecute(r)]

\* incError
incError(n) ==
    /\ ErrorCounter' = ErrorCounter + n
    /\ SpuriousErrorCounter' = SpuriousErrorCounter + n

(***************************************************************************)
(* "req, err := j.Runner.Prepare(input)" and                               *)
(* "resp, err := j.Runner.Execute(&req)" with what follows either error,   *)
(* and the unlocked read of SpuriousErrorCounter after a response.         *)
(***************************************************************************)
WAttempt(w) ==
    /\ w.pc = "attempt" /\ Alive
    /\ \/ /\ faults > 0
          /\ faults' = faults - 1
          /\ \E w2 \in {PrepareFailed(w), ExecuteFailed(w)} :
               /\ Become(w, w2)
               /\ incError(w2.nIncError - w.nIncError)
          /\ UNCHANGED dirs
       \/ /\ \E r \in Responses(Config) :
               /\ ServerOffers(r)
               /\ Become(w, Executed(w, r))
               /\ dirs' = dirs + (IF TriggersRecursion(r) THEN 1 ELSE 0)
          /\ UNCHANGED << faults, ErrorCounter, SpuriousErrorCounter >>
    /\ UNCHANGED << Config, ConfigUrl, queuejobs, queuepos, currentDepth,
                    Counter, Count403, Count429, Running, RunningJob, Paused,
                    skipQueue, pauseWg, Error, inputPos, pc, limiter, bg,
                    sigChan, sigSent, handler, cancelled, panicked,
                    finalizeCalls, selected, appended, Total, interruptedPaused,
                    stopped403, stale, deleteCalls, server, seen >>

\* resetSpuriousErrors
WReset(w) ==
    /\ w.pc = "reset" /\ Alive
    /\ SpuriousErrorCounter' = 0
    /\ Become(w, [w EXCEPT !.pc = AfterReset(w.resp)])
    /\ UNCHANGED << Config, ConfigUrl, queuejobs, queuepos, currentDepth,
                    Counter, ErrorCounter, Count403, Count429, Running,
                    RunningJob, Paused, skipQueue, pauseWg, Error, inputPos, pc,
                    limiter, bg, sigChan, sigSent, handler, cancelled, panicked,
                    finalizeCalls, selected, appended, faults, Total,
                    interruptedPaused, stopped403, dirs, stale, deleteCalls,
                    server, seen >>

\* inc403, inc429
WCount(w) ==
    /\ w.pc = "count" /\ Alive
    /\ Count403' = Count403 + (IF Counts403(w.resp) THEN 1 ELSE 0)
    /\ Count429' = Count429 + (IF Counts429(w.resp) THEN 1 ELSE 0)
    /\ Become(w, [w EXCEPT !.pc = "classify"])
    /\ UNCHANGED << Config, ConfigUrl, queuejobs, queuepos, currentDepth,
                    Counter, ErrorCounter, SpuriousErrorCounter, Running,
                    RunningJob, Paused, skipQueue, pauseWg, Error, inputPos, pc,
                    limiter, bg, sigChan, sigSent, handler, cancelled, panicked,
                    finalizeCalls, selected, appended, faults, Total,
                    interruptedPaused, stopped403, dirs, stale, deleteCalls,
                    server, seen >>

\* calls of resp.MakeFreeMemory runTask itself makes, after the match block
RunTaskFrees == 1

\* runTask from "resp.MakeFreeMemory()" on: the default recursion branch,
\* whose handler returns early unless the location is Request.Url + "/"
Freed(w) ==
    IF /\ Config.Recursion
       /\ Config.RecursionStrategy = "default"
       /\ w.resp.redirect = "dir"
    THEN [w EXCEPT !.nFree = @ + RunTaskFrees, !.pc = "recCheck",
                   !.from = "default"]
    ELSE [w EXCEPT !.nFree = @ + RunTaskFrees, !.pc = "exit"]

\* incError calls the replay request makes, by its outcome
ReplayIncError(outcome) == IF outcome = "prepare error" THEN 1 ELSE 0

ReplayOutcomes(w) ==
    IF Config.Replay /\ isMatch(w.resp)
    THEN {"ok"} \cup (IF faults > 0 THEN {"prepare error", "execute error"}
                      ELSE {})
    ELSE {"none"}

\* the match block of runTask: the replay request, Output.Result,
\* updateProgress and the greedy branch
Matched(w, outcome) ==
    LET v == [w EXCEPT !.nFree = @ + isMatchFrees(w.resp),
                       !.nIncError = @ + ReplayIncError(outcome),
                       !.replay = outcome,
                       !.nResult = @ + 1]
    IN  IF Config.Recursion /\ Config.RecursionStrategy = "greedy"
        THEN [v EXCEPT !.pc = "recCheck", !.from = "greedy"]
        ELSE Freed(v)

Classified(w, outcome) ==
    IF isMatch(w.resp) THEN Matched(w, outcome)
    ELSE Freed([w EXCEPT !.nFree = @ + isMatchFrees(w.resp)])

\* "j.pauseWg.Wait(); if j.isMatch(resp) { ... }"
WClassify(w) ==
    /\ w.pc = "classify" /\ Alive
    /\ pauseWg = 0
    /\ \E outcome \in ReplayOutcomes(w) :
         /\ Become(w, Classified(w, outcome))
         /\ incError(ReplayIncError(outcome))
         /\ faults' = IF outcome \in {"ok", "none"} THEN faults ELSE faults - 1
    /\ UNCHANGED << Config, ConfigUrl, queuejobs, queuepos, currentDepth,
                    Counter, Count403, Count429, Running, RunningJob, Paused,
                    skipQueue, pauseWg, Error, inputPos, pc, limiter, bg,
                    sigChan, sigSent, handler, cancelled, panicked,
                    finalizeCalls, selected, appended, Total, interruptedPaused,
                    stopped403, dirs, stale, deleteCalls, server, seen >>

\* a recursion handler has returned
Handled(w) == IF w.from = "greedy" THEN Freed(w) ELSE [w EXCEPT !.pc = "exit"]

(***************************************************************************)
(* handleGreedyRecursionJob and handleDefaultRecursionJob, after the       *)
(* directory test of the latter.  Each reads j.currentDepth for the depth  *)
(* test and again for the new job, and appends with                        *)
(*   j.queuejobs = append(j.queuejobs, newJob)                             *)
(* outside any lock: the slice is read, and the longer slice stored later. *)
(***************************************************************************)
WRecCheck(w) ==
    /\ w.pc = "recCheck" /\ Alive
    /\ Become(w, IF DepthAllows(currentDepth) THEN [w EXCEPT !.pc = "recRead"]
                 ELSE Handled(w))
    /\ UNCHANGED << Config, ConfigUrl, queuejobs, queuepos, currentDepth,
                    Counter, ErrorCounter, SpuriousErrorCounter, Count403,
                    Count429, Running, RunningJob, Paused, skipQueue, pauseWg,
                    Error, inputPos, pc, limiter, bg, sigChan, sigSent, handler,
                    cancelled, panicked, finalizeCalls, selected, appended,
                    faults, Total, interruptedPaused, stopped403, dirs, stale,
                    deleteCalls, server, seen >>

\* "newJob := QueueJob{Url: recUrl, depth: j.currentDepth + 1}"
newJob(w) == QueueJob(w.url, currentDepth + 1)

WRecRead(w) ==
    /\ w.pc = "recRead" /\ Alive
    /\ Become(w, [w EXCEPT !.d = newJob(w).depth, !.snap = queuejobs,
                           !.pc = "recStore"])
    /\ UNCHANGED << Config, ConfigUrl, queuejobs, queuepos, currentDepth,
                    Counter, ErrorCounter, SpuriousErrorCounter, Count403,
                    Count429, Running, RunningJob, Paused, skipQueue, pauseWg,
                    Error, inputPos, pc, limiter, bg, sigChan, sigSent, handler,
                    cancelled, panicked, finalizeCalls, selected, appended,
                    faults, Total, interruptedPaused, stopped403, dirs, stale,
                    deleteCalls, server, seen >>

\* What "append(slice, job)" stores when slice was read as w.snap, as the
\* entries and what the array holds behind them.  append either grows a copy
\* of the slice it read, or, the array having room, writes the slot behind
\* the length it read: the slots before it then hold what the array holds by
\* now, and the slots behind it stay what they are.
Appends(w, job) ==
    LET n == Len(w.snap)
        array == queuejobs \o stale
    IN  {[q |-> Append(w.snap, job), stale |-> << >>]}
          \cup (IF n <= Len(array)
                THEN {[q |-> Append(SubSeq(array, 1, n), job),
                       stale |-> SubSeq(array, n + 2, Len(array))]}
                ELSE {})

WRecStore(w) ==
    /\ w.pc = "recStore" /\ Alive
    /\ \E a \in Appends(w, QueueJob(w.url, w.d)) :
         queuejobs' = a.q /\ stale' = a.stale
    /\ appended' = Append(appended, QueueJob(w.url, w.d))
    /\ Become(w, Handled([w EXCEPT !.nAppend = @ + 1, !.d = 0,
                                   !.snap = << >>]))
    /\ UNCHANGED << Config, ConfigUrl, queuepos, currentDepth, Counter,
                    ErrorCounter, SpuriousErrorCounter, Count403, Count429,
                    Running, RunningJob, Paused, skipQueue, pauseWg, Error,
                    inputPos, pc, limiter, bg, sigChan, sigSent, handler,
                    cancelled, panicked, finalizeCalls, selected, faults, Total,
                    interruptedPaused, stopped403, dirs, deleteCalls, server,
                    seen >>

\* permits a finishing worker gives back to the limiter it took one from
Release(w) == 1

\* runTask has returned: sleepIfNeeded, Rate.Throttle, Rate.Tick, and the
\* deferred wg.Done() and "<-limiter"
WExit(w) ==
    /\ w.pc = "exit" /\ Alive
    /\ workers' = workers \ {w}
    /\ limiter' = IF w.exec = queuepos THEN limiter - Release(w) ELSE limiter
    /\ UNCHANGED << Config, ConfigUrl, queuejobs, queuepos, currentDepth,
                    Counter, ErrorCounter, SpuriousErrorCounter, Count403,
                    Count429, Running, RunningJob, Paused, skipQueue, pauseWg,
                    Error, inputPos, pc, bg, sigChan, sigSent, handler,
                    cancelled, panicked, finalizeCalls, selected, appended,
                    faults, Total, interruptedPaused, stopped403, dirs, stale,
                    deleteCalls, server, seen >>


(***************************************************************************)
(* The exported methods a user of the Job calls while Start runs.          *)
(***************************************************************************)
StartRuns == pc \notin {"start", "done"}

\* sync.WaitGroup: Done on a zero counter panics ("negative WaitGroup counter")
Done(counter) == counter - 1

\* Pause
Pause ==
    /\ StartRuns /\ Alive
    /\ IF ~Paused
       THEN /\ Paused' = TRUE
            /\ pauseWg' = pauseWg + 1
       ELSE UNCHANGED << Paused, pauseWg >>
    /\ UNCHANGED << Config, ConfigUrl, queuejobs, queuepos, currentDepth,
                    Counter, ErrorCounter, SpuriousErrorCounter, Count403,
                    Count429, Running, RunningJob, skipQueue, Error, inputPos,
                    pc, workers, limiter, bg, sigChan, sigSent, handler,
                    cancelled, panicked, finalizeCalls, selected, appended,
                    faults, Total, interruptedPaused, stopped403, dirs, stale,
                    deleteCalls, server, seen >>

\* Resume
Resume ==
    /\ StartRuns /\ Alive
    /\ IF Paused
       THEN /\ Paused' = FALSE
            /\ pauseWg' = Done(pauseWg)
            /\ panicked' = WaitGroupPanic(pauseWg')
       ELSE UNCHANGED << Paused, pauseWg, panicked >>
    /\ UNCHANGED << Config, ConfigUrl, queuejobs, queuepos, currentDepth,
                    Counter, ErrorCounter, SpuriousErrorCounter, Count403,
                    Count429, Running, RunningJob, skipQueue, Error, inputPos,
                    pc, workers, limiter, bg, sigChan, sigSent, handler,
                    cancelled, finalizeCalls, selected, appended, faults, Total,
                    interruptedPaused, stopped403, dirs, stale, deleteCalls,
                    server, seen >>

\* SkipQueue
SkipQueue ==
    /\ StartRuns /\ Alive
    /\ skipQueue' = TRUE
    /\ UNCHANGED << Config, ConfigUrl, queuejobs, queuepos, currentDepth,
                    Counter, ErrorCounter, SpuriousErrorCounter, Count403,
                    Count429, Running, RunningJob, Paused, pauseWg, Error,
                    inputPos, pc, workers, limiter, bg, sigChan, sigSent,
                    handler, cancelled, panicked, finalizeCalls, selected,
                    appended, faults, Total, interruptedPaused, stopped403,
                    dirs, stale, deleteCalls, server, seen >>

\* QueuedJobs: "j.queuejobs[j.queuepos-1:]"
QueuedJobs == SubSeq(queuejobs, queuepos, Len(queuejobs))

\* a DeleteQueueItem that counts from the head of the slice
DeleteIndexFromHead(index) == index - 1

\* the position in the slice, counted from 0, that DeleteQueueItem(index) removes
DeleteIndex(index) == queuepos + index - 1

\* "append(j.queuejobs[:index], j.queuejobs[index+1:]...)" is in range
DeleteInRange(index) ==
    DeleteIndex(index) >= 0 /\ DeleteIndex(index) + 1 <= Len(queuejobs)

\* a DeleteQueueItem that takes out the entry one slot earlier
DeleteEntryBefore(index) ==
    SubSeq(queuejobs, 1, DeleteIndex(index) - 1)
        \o SubSeq(queuejobs, DeleteIndex(index) + 1, Len(queuejobs))

DeleteQueueItem(index) ==
    SubSeq(queuejobs, 1, DeleteIndex(index))
        \o SubSeq(queuejobs, DeleteIndex(index) + 2, Len(queuejobs))

\* the entries behind index move down one slot in place: the last slot keeps
\* its entry, now behind the length
DeleteLeaves == << queuejobs[Len(queuejobs)] >> \o stale

\* The user names an entry of QueuedJobs by its place, the first being 1.
Delete ==
    /\ StartRuns /\ Alive
    /\ queuepos >= 1
    /\ \E index \in 1..Len(QueuedJobs) :
       /\ deleteCalls' = Append(deleteCalls, index)
       /\ IF DeleteInRange(index)
          THEN /\ queuejobs' = DeleteQueueItem(index)
               /\ stale' = DeleteLeaves
               /\ UNCHANGED panicked
          ELSE /\ panicked' = PanicIndex
               /\ UNCHANGED << queuejobs, stale >>
    /\ UNCHANGED << Config, ConfigUrl, queuepos, currentDepth, Counter,
                    ErrorCounter, SpuriousErrorCounter, Count403, Count429,
                    Running, RunningJob, Paused, skipQueue, pauseWg, Error,
                    inputPos, pc, workers, limiter, bg, sigChan, sigSent,
                    handler, cancelled, finalizeCalls, selected, appended,
                    faults, Total, interruptedPaused, stopped403, dirs, server,
                    seen >>

User == Pause \/ Resume \/ SkipQueue \/ Delete

(***************************************************************************)
(* interruptMonitor: signal.Notify into sigChan, which drops a signal when *)
(* the channel is full, and the goroutine that ranges over sigChan.        *)
(***************************************************************************)
Signal ==
    /\ handler # "off" /\ pc # "done" /\ Alive
    /\ sigSent < MaxSignals
    /\ sigSent' = sigSent + 1
    /\ sigChan' = IF sigChan < SigChanCap THEN sigChan + 1 ELSE sigChan
    /\ UNCHANGED << Config, ConfigUrl, queuejobs, queuepos, currentDepth,
                    Counter, ErrorCounter, SpuriousErrorCounter, Count403,
                    Count429, Running, RunningJob, Paused, skipQueue, pauseWg,
                    Error, inputPos, pc, workers, limiter, bg, handler,
                    cancelled, panicked, finalizeCalls, selected, appended,
                    faults, Total, interruptedPaused, stopped403, dirs, stale,
                    deleteCalls, server, seen >>

\* "j.Error = ..." and the read of j.Paused
HandlerReceive ==
    /\ handler = "idle" /\ Alive
    /\ sigChan > 0
    /\ sigChan' = sigChan - 1
    /\ Error' = ErrInterrupt
    /\ handler' = IF Paused THEN "release" ELSE "stop"
    /\ interruptedPaused' = (interruptedPaused \/ Paused)
    /\ UNCHANGED << Config, ConfigUrl, queuejobs, queuepos, currentDepth,
                    Counter, ErrorCounter, SpuriousErrorCounter, Count403,
                    Count429, Running, RunningJob, Paused, skipQueue, pauseWg,
                    inputPos, pc, workers, limiter, bg, sigSent, cancelled,
                    panicked, finalizeCalls, selected, appended, faults, Total,
                    stopped403, dirs, stale, deleteCalls, server, seen >>

\* "j.pauseWg.Done()" when Paused was read true, and "j.Stop()"
HandlerStop ==
    /\ handler \in {"release", "stop"} /\ Alive
    /\ pauseWg' = IF handler = "release" THEN Done(pauseWg) ELSE pauseWg
    /\ panicked' = WaitGroupPanic(pauseWg')
    /\ Running' = FALSE
    /\ cancelled' = TRUE
    /\ handler' = "idle"
    /\ UNCHANGED << Config, ConfigUrl, queuejobs, queuepos, currentDepth,
                    Counter, ErrorCounter, SpuriousErrorCounter, Count403,
                    Count429, RunningJob, Paused, skipQueue, Error, inputPos,
                    pc, workers, limiter, bg, sigChan, sigSent, finalizeCalls,
                    selected, appended, faults, Total, interruptedPaused,
                    stopped403, dirs, stale, deleteCalls, server, seen >>

Interrupt == Signal \/ HandlerReceive \/ HandlerStop


(***************************************************************************)
(* CheckStop read by read.  The head of the dispatch loop, and then the    *)
(* branches of CheckStop one at a time: each reads the counter it tests    *)
(* when it is its turn, with no lock taken, so the workers go on counting  *)
(* between the reads.                                                      *)
(***************************************************************************)
\* "for j.Input.Next() && !j.skipQueue {" and "if j.Counter > 50 {"
CheckBegin ==
    /\ pc = "loop" /\ Alive
    /\ seen' = NoneSeen
    /\ IF inputPos >= Total
       THEN pc' = "wait" /\ UNCHANGED inputPos
       ELSE /\ inputPos' = inputPos + 1
            /\ pc' = IF skipQueue THEN "wait"
                     ELSE IF Counter > MinSamples THEN "check403"
                     ELSE "checkTime"
    /\ UNCHANGED << Config, ConfigUrl, queuejobs, queuepos, currentDepth,
                    Counter, ErrorCounter, SpuriousErrorCounter, Count403,
                    Count429, Running, RunningJob, Paused, skipQueue, pauseWg,
                    Error, workers, limiter, bg, sigChan, sigSent, handler,
                    cancelled, panicked, finalizeCalls, selected, appended,
                    faults, Total, interruptedPaused, stopped403, dirs, stale,
                    deleteCalls, server >>

\* what a branch of CheckStop that calls Stop() leaves
Stopped(stops, message) ==
    /\ Error' = IF stops THEN message ELSE Error
    /\ Running' = (Running /\ ~stops)
    /\ cancelled' = (cancelled \/ stops)

\* "if j.Config.StopOn403 || j.Config.StopOnAll { if float64(j.Count403)/... "
Check403 ==
    /\ pc = "check403" /\ Alive
    /\ seen' = IF Config.StopOn403 \/ Config.StopOnAll
               THEN [seen EXCEPT !.c403 = Count403] ELSE seen
    /\ Stopped(Stop403, Err403)
    /\ stopped403' = (stopped403 \/ Stop403)
    /\ pc' = "checkSpurious"
    /\ UNCHANGED << Config, ConfigUrl, queuejobs, queuepos, currentDepth,
                    Counter, ErrorCounter, SpuriousErrorCounter, Count403,
                    Count429, RunningJob, Paused, skipQueue, pauseWg, inputPos,
                    workers, limiter, bg, sigChan, sigSent, handler, panicked,
                    finalizeCalls, selected, appended, faults, Total,
                    interruptedPaused, dirs, stale, deleteCalls, server >>

\* "if j.Config.StopOnErrors || j.Config.StopOnAll { if j.SpuriousErrorCounter > ..."
CheckSpurious ==
    /\ pc = "checkSpurious" /\ Alive
    /\ seen' = IF Config.StopOnErrors \/ Config.StopOnAll
               THEN [seen EXCEPT !.spurious = SpuriousErrorCounter] ELSE seen
    /\ Stopped(StopSpurious, ErrSpurious)
    /\ pc' = "check429"
    /\ UNCHANGED << Config, ConfigUrl, queuejobs, queuepos, currentDepth,
                    Counter, ErrorCounter, SpuriousErrorCounter, Count403,
                    Count429, RunningJob, Paused, skipQueue, pauseWg, inputPos,
                    workers, limiter, bg, sigChan, sigSent, handler, panicked,
                    finalizeCalls, selected, appended, faults, Total,
                    interruptedPaused, stopped403, dirs, stale, deleteCalls,
                    server >>

\* "if j.Config.StopOnAll && (float64(j.Count429)/float64(j.Counter) > 0.2) {"
Check429 ==
    /\ pc = "check429" /\ Alive
    /\ seen' = IF Config.StopOnAll THEN [seen EXCEPT !.c429 = Count429]
               ELSE seen
    /\ Stopped(Stop429, Err429)
    /\ pc' = "checkTime"
    /\ UNCHANGED << Config, ConfigUrl, queuejobs, queuepos, currentDepth,
                    Counter, ErrorCounter, SpuriousErrorCounter, Count403,
                    Count429, RunningJob, Paused, skipQueue, pauseWg, inputPos,
                    workers, limiter, bg, sigChan, sigSent, handler, panicked,
                    finalizeCalls, selected, appended, faults, Total,
                    interruptedPaused, stopped403, dirs, stale, deleteCalls,
                    server >>

\* the two time limits of CheckStop, and the test of Running after the call
CheckTime ==
    /\ pc = "checkTime" /\ Alive
    /\ \E totalUp \in Clock(Config.MaxTime), jobUp \in Clock(Config.MaxTimeJob) :
         /\ Error' = IF NextMaxTimeJob(jobUp) THEN ErrMaxTimeJob
                     ELSE IF StopMaxTime(totalUp) THEN ErrMaxTime
                     ELSE Error
         /\ Running' = (Running /\ ~StopMaxTime(totalUp))
         /\ cancelled' = (cancelled \/ StopMaxTime(totalUp))
         /\ RunningJob' = (RunningJob /\ ~NextMaxTimeJob(jobUp))
    /\ pc' = AfterCheckStop(Running')
    /\ UNCHANGED << Config, ConfigUrl, queuejobs, queuepos, currentDepth,
                    Counter, ErrorCounter, SpuriousErrorCounter, Count403,
                    Count429, Paused, skipQueue, pauseWg, inputPos, workers,
                    limiter, bg, sigChan, sigSent, handler, panicked,
                    finalizeCalls, selected, appended, faults, Total,
                    interruptedPaused, stopped403, dirs, stale, deleteCalls,
                    server, seen >>

CheckStop == CheckBegin \/ Check403 \/ CheckSpurious \/ Check429 \/ CheckTime


Worker ==
    \E w \in workers :
        \/ WAttempt(w) \/ WReset(w) \/ WCount(w) \/ WClassify(w)
        \/ WRecCheck(w) \/ WRecRead(w) \/ WRecStore(w) \/ WExit(w)

Dispatcher ==
    \/ StartBegin \/ QueueLoop \/ PrepareAndReset \/ LoopTop \/ PauseWait
    \/ Dispatch \/ WaitWorkers \/ Finalize

Monitor == BgTop \/ BgBody

NextCore == Dispatcher \/ Worker \/ Monitor

Spec == Init /\ [][NextCore]_vars

(***************************************************************************)
(* A run with a user at the console and signals.                           *)
(***************************************************************************)
UserScenarios ==
    { [Config |-> [TimedConfig EXCEPT !.MaxTimeJob = 0],
       words |-> MaxWords - 1, faults |-> 0] }

InitUser ==
    /\ \E s \in UserScenarios :
         Config = s.Config /\ Total = s.words /\ faults = s.faults
    /\ server = "sample"
    /\ NewJob

Next == NextCore \/ User \/ Interrupt

SpecUser == InitUser /\ [][Next]_vars

(***************************************************************************)
(* A run picked up at the head of the dispatch loop of its first target,   *)
(* late enough for the adaptive stops of CheckStop: n inputs have been     *)
(* dispatched and their workers have returned, c403 of the responses were  *)
(* 403, a later target is queued or not, and a few inputs are left.        *)
(***************************************************************************)
StopConfig ==
    [CoreConfig EXCEPT !.StopOn403 = TRUE, !.Recursion = TRUE,
                       !.RecursionStrategy = "greedy", !.RecursionDepth = 1]

\* the same with StopOnAll in the place of StopOn403
StopConfigAll == [StopConfig EXCEPT !.StopOn403 = FALSE, !.StopOnAll = TRUE]

\* the same with a limit on the total running time
StopConfigTimed == [StopConfig EXCEPT !.MaxTime = 1]

LateRuns ==
    { [n |-> MinSamples + 1, c403 |-> MinSamples - 1, queued |-> 1, Config |-> StopConfig],
      [n |-> MinSamples + 1, c403 |-> MinSamples - 1, queued |-> 0, Config |-> StopConfig],
      [n |-> MinSamples + 1, c403 |-> MinSamples - 2, queued |-> 0, Config |-> StopConfig],
      [n |-> MinSamples,     c403 |-> MinSamples - 2, queued |-> 0, Config |-> StopConfig],
      [n |-> MinSamples,     c403 |-> MinSamples - 1, queued |-> 1, Config |-> StopConfig],
      [n |-> MinSamples + 1, c403 |-> MinSamples - 1, queued |-> 1, Config |-> StopConfigAll],
      [n |-> MinSamples + 1, c403 |-> MinSamples - 1, queued |-> 1, Config |-> StopConfigTimed] }

Target(k) == QueueJob(<<k>>, 1)

Late(r) ==
    /\   /\ Counter = r.n
         /\ inputPos = r.n
         /\ Total = r.n + MaxWords - 1
         /\ Count403 = r.c403
         /\ finalizeCalls = [loop |-> r.n * FinalizeInLoop, end |-> 0]
         /\ queuejobs = IF r.queued = 1
                        THEN << QueueJob(BaseUrl, 0), Target(1) >>
                        ELSE << QueueJob(BaseUrl, 0) >>
         /\ Config = r.Config
    /\ appended = queuejobs
    /\ stale = << >>
    /\ selected = << QueueJob(BaseUrl, 0) >>
    /\ faults = 0
    /\ ConfigUrl = BaseUrl
    /\ queuepos = 1
    /\ currentDepth = 0
    /\ ErrorCounter = 0
    /\ SpuriousErrorCounter = 0
    /\ Count429 = 0
    /\ Running = TRUE
    /\ RunningJob = TRUE
    /\ Paused = FALSE
    /\ skipQueue = FALSE
    /\ pauseWg = 0
    /\ Error = ErrNone
    /\ pc = "loop"
    /\ workers = {}
    /\ limiter = 0
    /\ bg = "top"
    /\ sigChan = 0
    /\ sigSent = 0
    /\ handler = "idle"
    /\ cancelled = FALSE
    /\ panicked = NoPanic
    /\ interruptedPaused = FALSE
    /\ stopped403 = FALSE
    /\ dirs = MaxDirs
    /\ deleteCalls = << >>
    /\ server = "sample"
    /\ seen = NoneSeen

InitLate == \E r \in LateRuns : Late(r)

SpecLate == (Init \/ InitLate) /\ [][NextCore]_vars


(***************************************************************************)
(* A run of one input without recursion against a server whose responses   *)
(* get every combination of verdicts from the matchers and filters.        *)
(***************************************************************************)
InitMatch ==
    /\ Config = CoreConfig
    /\ Total = 1
    /\ faults = 0
    /\ server = "any"
    /\ NewJob

SpecMatch == InitMatch /\ [][NextCore]_vars

(***************************************************************************)
(* A run picked up late, with two threads and every adaptive stop, in      *)
(* which CheckStop makes its reads one at a time.                          *)
(***************************************************************************)
StopRuns ==
    { [n |-> MinSamples + 1, c403 |-> 0, queued |-> 0,
       Config |-> [StopConfigAll EXCEPT !.Threads = MaxThreads]],
      [n |-> MinSamples + 1, c403 |-> MinSamples - 1, queued |-> 1,
       Config |-> [StopConfigAll EXCEPT !.Threads = MaxThreads]] }

InitStop == \E r \in StopRuns : Late(r)

NextStop ==
    \/ CheckStop
    \/ QueueLoop \/ PrepareAndReset \/ PauseWait \/ Dispatch \/ WaitWorkers
    \/ Finalize
    \/ Worker
    \/ Monitor

SpecStop == InitStop /\ [][NextStop]_vars

(***************************************************************************)
(* Fair scheduling.  Start runs in one goroutine, every runTask and every  *)
(* runBackgroundTasks in a goroutine of its own, and the Go scheduler      *)
(* lets every goroutine that can run take its next step: each step of the  *)
(* dispatcher, the steps of the workers and those of the progress monitor  *)
(* are weakly fair.  Prepare and Execute return, which WAttempt models.    *)
(***************************************************************************)
Fairness ==
    /\ WF_vars(StartBegin) /\ WF_vars(QueueLoop) /\ WF_vars(PrepareAndReset)
    /\ WF_vars(LoopTop) /\ WF_vars(PauseWait) /\ WF_vars(Dispatch)
    /\ WF_vars(WaitWorkers) /\ WF_vars(Finalize)
    /\ WF_vars(Worker)
    /\ WF_vars(Monitor)

\* the runs with a bounded recursion depth
BoundedScenarios == { s \in Scenarios : s.Config.RecursionDepth > 0 }

InitFair ==
    /\ \E s \in BoundedScenarios :
         Config = s.Config /\ Total = s.words /\ faults = s.faults
    /\ server = "sample"
    /\ NewJob

SpecFair == InitFair /\ [][NextCore]_vars /\ Fairness


(***************************************************************************)
(* Properties.                                                             *)
(***************************************************************************)
IsPrefix(s, t) == Len(s) <= Len(t) /\ SubSeq(t, 1, Len(s)) = s

\* s without its i-th entry
RemoveAt(s, i) == SubSeq(s, 1, i - 1) \o SubSeq(s, i + 1, Len(s))

\* the workers spawned by the e-th startExecution call and not yet returned
Holders(e) == {w \in workers : w.exec = e}

\* C1: Output.Finalize is never called inside the dispatch loop of
\* startExecution, and when Start has returned it has been called exactly
\* once over the whole run.
C1_FinalizeOnce ==
    /\ finalizeCalls.loop = 0
    /\ pc = "done" => finalizeCalls.loop + finalizeCalls.end = 1

\* C2: the workers of one startExecution call that hold a permit of its
\* limiter are never more than Config.Threads; the permits in the limiter of
\* the current call are exactly its workers that have not returned (every
\* return gives the permit back); and with Config.Threads of them in flight
\* the dispatcher cannot pass "limiter <- true".
C2_PermitCap ==
    /\ \A w \in workers : w.exec \in 1..queuepos
    /\ \A e \in 1..queuepos : Cardinality(Holders(e)) <= Config.Threads
    /\ limiter = Cardinality(Holders(queuepos))
    /\ Cardinality(Holders(queuepos)) >= Config.Threads => ~ENABLED Dispatch

\* C2 happens: the dispatcher stands at "limiter <- true" with as many
\* workers in flight as the largest Config.Threads allows.
C2_Witness ==
    /\ pc = "acquire"
    /\ Config.Threads = MaxThreads
    /\ Cardinality(Holders(queuepos)) = MaxThreads

\* C3: startExecution returns only after all the workers it spawned have
\* returned: every worker alive belongs to the startExecution call in
\* progress, so none is left when Start resets the per-target state, selects
\* a later target or finalizes.
C3_JoinBeforeReturn ==
    \A w \in workers :
        /\ w.exec = queuepos
        /\ pc \in {"loop", "pausewait", "acquire", "wait"}

\* C4: when runTask is done with a response Runner.Execute returned,
\* MakeFreeMemory has been called on it exactly once.
C4_FreedOnce ==
    \A w \in workers : (w.pc = "exit" /\ w.resp # NoResp) => w.nFree = 1

\* C5: the targets prepareQueueJob has selected are, in order, the targets
\* first appended, and when Start has returned and no worker is left every
\* appended target has been selected.
C5_AppendOrder ==
    /\ IsPrefix(selected, appended)
    /\ (pc = "done" /\ workers = {}) => selected = appended

TailAppend ==
    Len(queuejobs') = Len(queuejobs) + 1 /\ IsPrefix(queuejobs, queuejobs')

RemovalBehindCursor ==
    \E i \in (queuepos + 1)..Len(queuejobs) : queuejobs' = RemoveAt(queuejobs, i)

StaleStore ==
    \E w \in workers :
        /\ w.pc = "recStore" /\ w.snap # queuejobs
        /\ Len(queuejobs') = Len(w.snap) + 1
        /\ queuejobs'[Len(queuejobs')] = QueueJob(w.url, w.d)

C7_DepthBound ==
    Config.RecursionDepth > 0 =>
        \A i \in 1..Len(appended) : appended[i].depth <= Config.RecursionDepth

\* C8: without a replay runner, for one dispatched input: Runner.Execute is
\* called at most twice and Runner.Prepare once per Execute attempt; when the
\* first Execute failed and the second returned a response, incError was not
\* called and at most one result was emitted; when both failed, incError was
\* called exactly once and runTask returned; when a Prepare failed, incError
\* was called once and runTask returned without another attempt.
C8_RetryAccounting ==
    ~Config.Replay =>
      \A w \in workers :
        /\ w.nExecute <= 2 /\ w.nPrepare <= 2
        /\ w.nPrepare \in {w.nExecute, w.nExecute + 1}
        /\ (w.nExecute = 2 /\ w.resp # NoResp) =>
               w.nIncError = 0 /\ w.nResult <= 1
        /\ (w.nExecute = 2 /\ w.resp = NoResp) =>
               w.nIncError = 1 /\ w.pc = "exit" /\ w.nResult = 0
        /\ (w.nPrepare > w.nExecute) =>
               w.nIncError = 1 /\ w.pc = "exit" /\ w.nResult = 0
        /\ (w.nExecute = 1 /\ w.nPrepare = 1 /\ w.resp = NoResp) =>
               w.nIncError = 0 /\ w.pc = "attempt" /\ w.retried

\* C8 happens: a worker whose first Execute failed has emitted the result of
\* its second.
C8_Witness ==
    /\ ~Config.Replay
    /\ \E w \in workers :
         w.nExecute = 2 /\ w.resp # NoResp /\ w.nResult = 1 /\ w.pc = "exit"

\* C9: once the signal handler has found the job paused, no goroutine panics
\* on the pause barrier, and when the handler has finished Error is the
\* keyboard-interrupt message, Running is false and the barrier is open.
C9_PauseThenInterrupt ==
    interruptedPaused =>
        /\ panicked # PanicWaitGroup
        /\ (handler = "idle" /\ sigChan = 0) =>
               Error = ErrInterrupt /\ ~Running /\ pauseWg = 0

\* the step of CheckStop in which the 403 ratio is found above 0.95
Stops403Step == Stop403 /\ inputPos' = inputPos + 1 /\ ~skipQueue

\* a worker of the next state that the step has spawned
Spawned(w) ==
    \A v \in workers : v.exec # w.exec \/ v.position # w.position

\* C10: the call of CheckStop that finds Counter > 50 and
\* Count403/Counter > 0.95 with StopOn403 or StopOnAll leaves Running false
\* and Config.Cancel called, and Error holding the 403 message (unless the
\* time limit of the whole run, tested further down the same call, is reached
\* too and writes its own); from then on Running stays false, no step spawns
\* a worker or counts a dispatch, for this target or a later one, and Start
\* returns only when the running workers have returned.
C10_Stop403 ==
    /\ [][ Stops403Step =>
             /\ ~Running' /\ cancelled'
             /\ Error' = Err403 \/ (Config.MaxTime > 0 /\ Error' = ErrMaxTime) ]_vars
    /\ [][ stopped403 =>
             /\ \A w \in workers' : ~Spawned(w)
             /\ Counter' <= Counter
             /\ finalizeCalls'.loop = finalizeCalls.loop ]_vars
    /\ [](stopped403 => ~Running /\ cancelled)
    /\ []((stopped403 /\ pc = "done") => workers = {})

\* C10 happens: after the stop for the 403 ratio Start has gone through the
\* queued later target without dispatching anything and has returned.
C10_Witness ==
    /\ stopped403 /\ Error = Err403
    /\ pc = "done"
    /\ Len(selected) = 2 /\ Counter = 0

\* the step of CheckStop in which the time of the current target is found used up
TimesOutStep == inputPos' = inputPos + 1 /\ RunningJob /\ ~RunningJob'

\* C11: the call of CheckStop that finds the time of the current target used
\* up sets RunningJob to false and, no stop condition holding in the same
\* call, leaves Running and the cancellation alone; with RunningJob false the
\* dispatcher dispatches no more than the input at hand and returns from
\* startExecution to the queue loop of Start; and every target Start selects
\* is started with RunningJob true.
C11_NextUnwindsTarget ==
    /\ [][ TimesOutStep =>
              /\ Error' = ErrMaxTimeJob
              /\ ~CheckStopStops(FALSE) =>
                     (Running' = Running /\ cancelled' = cancelled) ]_vars
    /\ [][ (~RunningJob /\ Counter' = Counter + 1) => pc' = "queue" ]_vars
    /\ [][ queuepos' # queuepos => (RunningJob' /\ pc' = "loop") ]_vars
    /\ [](pc = "loop" => RunningJob)

\* C11 happens: after the time of the first target was used up, with the job
\* still running and not cancelled, Start has selected the second target.
C11_Witness ==
    /\ Error = ErrMaxTimeJob /\ Running /\ ~cancelled
    /\ queuepos = 2 /\ pc = "loop" /\ inputPos = 0 /\ RunningJob

\* C12: the counter of pauseWg is 0 or 1, never negative, and it is 1
\* exactly when Paused is true, whatever Pause, Resume and the signal handler
\* have done.
C12_PauseLatch ==
    /\ pauseWg \in {0, 1}
    /\ (pauseWg = 1) <=> Paused

\* the argument of the DeleteQueueItem call the step makes
Deletes(index) == deleteCalls' = Append(deleteCalls, index)

\* C13 as the specification states it: with queuepos >= 1, DeleteQueueItem(i)
\* with 1 <= i <= len(QueuedJobs()) takes the i-th entry, counted from 1, out of
\* the visible slice and leaves the others in their order.
C13_RemovesIth ==
    [][ queuepos >= 1 => \A i \in 1..Len(QueuedJobs) :
          Deletes(i) => (Alive' /\ QueuedJobs' = RemoveAt(QueuedJobs, i)) ]_vars

\* C13: with queuepos >= 1, DeleteQueueItem(i) with
\* 1 <= i < len(QueuedJobs()) takes out the
\* entry QueuedJobs()[i], counted from 0 (the slot queuepos + i - 1 of the
\* queue, the entry i places behind the one being processed), and leaves
\* every other entry in its order; with i = len(QueuedJobs()) it panics on
\* the slice bounds and the queue stays as it is.
C13_RemovesBehindIth ==
    [][ queuepos >= 1 => \A i \in 1..Len(QueuedJobs) :
          Deletes(i) =>
            IF i < Len(QueuedJobs)
            THEN /\ Alive'
                 /\ QueuedJobs' = RemoveAt(QueuedJobs, i + 1)
                 /\ queuejobs' = RemoveAt(queuejobs, queuepos + i)
            ELSE /\ panicked' = PanicIndex
                 /\ queuejobs' = queuejobs ]_vars

\* C13 happens: of three visible entries DeleteQueueItem(1) has taken out
\* the second and the job goes on.
C13_Witness ==
    /\ Alive
    /\ deleteCalls = << 1 >>
    /\ Len(queuejobs) = 2 /\ Len(appended) = 3
    /\ queuejobs = << appended[1], appended[3] >>

\* some matcher returned true without an error, and no filter did
Accepts(resp) ==
    /\ \E i \in 1..Len(resp.m) : resp.m[i] = "true"
    /\ \A i \in 1..Len(resp.f) : resp.f[i] # "true"

\* the worker has been through "if j.isMatch(resp)"
Classed(w) == w.resp # NoResp /\ w.pc \notin {"classify", "count", "reset"}

\* C14: isMatch accepts a response exactly when some matcher returns true
\* without an error and no filter returns true without an error, an error
\* counting as false; without a true matcher it rejects whatever the filters
\* return; and the classification runTask acted on (a result emitted or not)
\* is the one isMatch gives on the same response again.
C14_IsMatch ==
    \A w \in workers :
        w.resp # NoResp =>
            /\ isMatch(w.resp) <=> Accepts(w.resp)
            /\ (\A i \in 1..Len(w.resp.m) : w.resp.m[i] # "true") =>
                   ~isMatch(w.resp)
            /\ Classed(w) => (w.nResult = 1 <=> isMatch(w.resp))
            /\ ~Classed(w) => w.nResult = 0

\* C14 happens: a result was emitted for a response one matcher and one
\* filter failed on with an error, the other matcher accepting it and the
\* other filter not.
C14_Witness ==
    \E w \in workers :
        /\ w.pc = "exit" /\ w.nResult = 1
        /\ w.resp.m = << "error", "true" >>
        /\ w.resp.f = << "false", "error" >>

\* v is the worker w after a step of its own
Same(w, v) == w.exec = v.exec /\ w.position = v.position /\ w # v

\* the step completes w's test and reset of SpuriousErrorCounter after a
\* response: the counter was read as zero, or resetSpuriousErrors has run
CompletesSuccess(w, v) ==
    /\ Same(w, v)
    /\ v.resp # NoResp /\ v.pc # "reset"
    /\ w.pc \in {"attempt", "reset"}

\* C15: in the state a worker's test and reset of SpuriousErrorCounter after
\* a successful Execute leads to, SpuriousErrorCounter is zero, whatever the
\* other workers have added to it with incError before.
C15_SpuriousZeroAfterSuccess ==
    [][ \A w \in workers : \A v \in workers' :
          CompletesSuccess(w, v) => SpuriousErrorCounter' = 0 ]_vars

\* C15 happens: errors were counted, a worker with a response is past the
\* test, and the counter is zero again.
C15_Witness ==
    /\ Config.Threads = MaxThreads
    /\ ErrorCounter > 0 /\ SpuriousErrorCounter = 0
    /\ \E w \in workers : w.resp # NoResp /\ w.pc \in {"count", "classify"}

\* C16: once a stop trigger has written Error, no step writes a different
\* message over it.
C16_ErrorSetOnce ==
    [][ Error # ErrNone => Error' = Error ]_vars

\* C17: the counters one call of CheckStop tests are those of one state: what
\* the call has read of Count403 and SpuriousErrorCounter is still their
\* value when it reads the next counter, no worker having counted in between.
C17_CountersOfOneState ==
    /\ pc \in {"checkSpurious", "check429"} =>
           (seen.c403 # NoneSeen.c403 => seen.c403 = Count403)
    /\ pc = "check429" =>
           (seen.spurious # NoneSeen.spurious =>
                seen.spurious = SpuriousErrorCounter)

\* C18: no append to the queue is lost or overwritten: as long as nothing is
\* deleted, queuejobs holds one entry for every append made, and every target
\* a recursion handler appended is among them.
C18_NoAppendLost ==
    /\ Len(queuejobs) = Len(appended)
    /\ \A i \in 1..Len(appended) :
           \E k \in 1..Len(queuejobs) : queuejobs[k] = appended[i]

\* C19: a worker whose replay request failed, in ReplayRunner.Prepare or in
\* ReplayRunner.Execute, has called incError for it, and has passed its
\* response to Output.Result exactly once.
C19_ReplayErrorCounted ==
    \A w \in workers :
        w.replay \in {"prepare error", "execute error"} =>
            w.nIncError = 1 /\ w.nResult = 1

\* startExecution is running
InExecution == pc \in {"loop", "pausewait", "acquire", "wait"}

\* every startExecution call returns to the queue loop of Start, the loop is
\* left only with the cursor at the end of the queue, and Start returns
\* having finalized the output
StartReturns ==
    /\ InExecution ~> pc = "queue"
    /\ [][ (pc = "queue" /\ pc' = "finalize") => queuepos = Len(queuejobs) ]_vars
    /\ <>[](pc = "done" /\ finalizeCalls.end = 1)

\* startExecution returns with its workers and its progress monitor joined
JoinCompletes ==
    [][ (InExecution /\ pc' = "queue") =>
            /\ \A w \in workers' : w.exec # queuepos
            /\ bg = "done" ]_vars

\* C20: under fair scheduling Start terminates: every startExecution call
\* returns, its join of the workers and of the progress monitor completed,
\* the queue cursor reaches the end of the queue, and Start returns after
\* finalizing the output.
C20_StartTerminates == StartReturns /\ JoinCompletes

=============================================================================
